---- MODULE Spec2Model ----
(***************************************************************************)
(* Model of rkllm_toolkit_cli: the convert driver loop, the                *)
(* RKLLMRemotePipeline conversion pipeline and the HubHelpers publish      *)
(* steps (src/src/rkllm_toolkit_cli/__init__.py).                          *)
(*                                                                         *)
(* Python strings that take part in formatting or parsing are sequences of *)
(* one-character strings, so that f-string concatenation and str.split are *)
(* computed character by character.  None and an attribute that was never *)
(* assigned are one-element sequences holding a long token, which no       *)
(* character sequence can equal.                                           *)
(***************************************************************************)
EXTENDS Integers, Sequences, FiniteSets, TLC

VARIABLES
    pc,        \* control position of the running program
    caller,    \* "convert" (the CLI driver) or "direct" (the class used on its own)
    args,      \* the CLI arguments of convert
    mi, qi, hi,\* positions of the three nested for loops of convert
    rk,        \* fields of the current RKLLMRemotePipeline object
    hf,        \* fields of the current HubHelpers object
    calls,     \* external calls made for the current request, in order
    faults,    \* external calls that failed so far: <<request number, call>>
    resolved,  \* the rk objects as left by build_vars, one per request started
    uploaded,  \* numbers of the requests whose upload_folder call returned
    failures,  \* number of "Model conversion failed" reports printed by convert
    dirs,      \* directories that exist under ./models
    files,     \* files written under ./models
    exc,       \* the exception that ended the program: [type, site], or NoExc
    trace      \* calls of the whole run with their arguments: [req, op, ok, arg]

vars == <<pc, caller, args, mi, qi, hi, rk, hf, calls, faults, resolved,
          uploaded, failures, dirs, files, exc, trace>>

----------------------------------------------------------------------------
(* Bounds of the model *)

\* Most combinations (|model_ids| * |qtypes| * |hybrid_rates|) in one batch.
MaxCombos == 3
\* Most external calls that fail in one run.
MaxFaults == 1

----------------------------------------------------------------------------
(* Python values *)

None == << "<None>" >>
Unset == << "<unset attribute>" >>
EmptyStr == << >>

S_rk3588 == <<"r", "k", "3", "5", "8", "8">>
S_rk3576 == <<"r", "k", "3", "5", "7", "6">>
S_w8a8 == <<"w", "8", "a", "8">>
S_w8a8_g128 == <<"w", "8", "a", "8", "_", "g", "1", "2", "8">>
S_w8a8_g256 == <<"w", "8", "a", "8", "_", "g", "2", "5", "6">>
S_w8a8_g512 == <<"w", "8", "a", "8", "_", "g", "5", "1", "2">>
S_w4a16 == <<"w", "4", "a", "1", "6">>
S_w4a16_g32 == <<"w", "4", "a", "1", "6", "_", "g", "3", "2">>
S_w4a16_g64 == <<"w", "4", "a", "1", "6", "_", "g", "6", "4">>
S_w4a16_g128 == <<"w", "4", "a", "1", "6", "_", "g", "1", "2", "8">>
S_models == <<".", "/", "m", "o", "d", "e", "l", "s", "/">>
S_opt == <<"-", "o", "p", "t", "-">>
S_hybrid == <<"-", "h", "y", "b", "r", "i", "d", "-", "r", "a", "t", "i", "o", "-">>
S_rkllm == <<".", "r", "k", "l", "l", "m">>
S_readme == <<"R", "E", "A", "D", "M", "E", ".", "m", "d">>
S_version == <<"1", ".", "1", ".", "4">>
S_user == <<"u", "s", "e", "r">>
Dash == <<"-">>
Slash == <<"/">>

\* class Platform
Platform == {S_rk3588, S_rk3576}
\* class QTypesRk3588
QTypesRk3588 == {S_w8a8, S_w8a8_g128, S_w8a8_g256, S_w8a8_g512}
\* class QTypesRk3576
QTypesRk3576 == {S_w8a8, S_w4a16, S_w4a16_g32, S_w4a16_g64, S_w4a16_g128}

\* The decimal digit d as a character.
Digit(d) == <<"0", "1", "2", "3", "4", "5", "6", "7", "8", "9">>[d + 1]

RECURSIVE NatStr(_)
\* str(n) for a natural number n.
NatStr(n) == IF n < 10 THEN <<Digit(n)>> ELSE NatStr(n \div 10) \o <<Digit(n % 10)>>

\* f"{x}" for the float x = h / 100 (h an integer number of hundredths):
\* the shortest decimal that reads back as x, with at least one fractional
\* digit ("0.0", "0.5", "0.25", "1.5", "-0.5").
FormatFloat(h) ==
    LET a == IF h < 0 THEN 0 - h ELSE h
        sign == IF h < 0 THEN <<"-">> ELSE << >>
        frac == a % 100
        fracStr == IF frac % 10 = 0 THEN <<Digit(frac \div 10)>>
                   ELSE <<Digit(frac \div 10), Digit(frac % 10)>>
    IN  sign \o NatStr(a \div 100) \o <<".">> \o fracStr

\* A model name that keeps the organisation of the model id.
SplitTail_whole(s) == s

\* s.split("/", 1)[1]: the text after the first "/"; Unset stands for the
\* IndexError of a string with no "/".
SplitTail(s) ==
    IF \E i \in 1..Len(s) : s[i] = "/"
    THEN LET i == CHOOSE k \in 1..Len(s) :
                      s[k] = "/" /\ \A j \in 1..(k - 1) : s[j] # "/"
         IN  SubSeq(s, i + 1, Len(s))
    ELSE Unset

----------------------------------------------------------------------------
(* RKLLMRemotePipeline.__init__ and build_vars *)

\* RKLLMRemotePipeline.__init__: the object before build_vars.
NewPipeline(model_id, lora_id, platform, qtype, hybrid_rate, library_type, optimization) ==
    [model_id |-> model_id, lora_id |-> lora_id, platform |-> platform,
     qtype |-> qtype, hybrid_rate |-> hybrid_rate,
     library_type |-> library_type, optimization |-> optimization,
     npu_cores |-> 0, qparams |-> Unset, dataset |-> Unset,
     model_name |-> Unset, model_dir |-> Unset, name_suffix |-> Unset,
     lora_name |-> Unset, lora_dir |-> Unset, lorapath |-> Unset,
     export_name |-> Unset, export_path |-> Unset, modelpath |-> Unset,
     rkllm_version |-> Unset, lora_arg |-> Unset, status |-> 0]

\* A name suffix that leaves out the hybrid rate.
name_suffix_no_rate(platform, qtype, optimization, hybrid_rate) ==
    platform \o Dash \o qtype \o S_opt \o NatStr(optimization)

\* self.name_suffix of build_vars (line 83).
name_suffix(platform, qtype, optimization, hybrid_rate) ==
    platform \o Dash \o qtype \o S_opt \o NatStr(optimization)
             \o S_hybrid \o hybrid_rate

\* self.npu_cores of build_vars (lines 74-77); 0 stands for the attribute
\* that no branch assigned.
npu_cores(platform) ==
    IF platform = S_rk3588 THEN 3
    ELSE IF platform = S_rk3576 THEN 2
    ELSE 0

\* An export directory that leaves out the model name.
export_dir_no_name(model_name, platform) == S_models \o platform \o Slash

\* self.export_path of build_vars without an adapter (line 89).
export_dir(model_name, platform) ==
    S_models \o model_name \o Dash \o platform \o Slash

\* build_vars (lines 73-97) applied to the object o; model_id has a "/".
build_vars(o) ==
    LET model_name == SplitTail(o.model_id)
        suffix == name_suffix(o.platform, o.qtype, o.optimization, o.hybrid_rate)
        base == [o EXCEPT !.npu_cores = npu_cores(o.platform),
                          !.dataset = None, !.qparams = None,
                          !.model_name = model_name,
                          !.model_dir = S_models \o model_name \o Slash,
                          !.name_suffix = suffix,
                          !.rkllm_version = S_version]
    IN  IF o.lora_id = EmptyStr
        THEN [base EXCEPT !.lora_name = None, !.lora_dir = None, !.lorapath = None,
                          !.export_name = model_name \o Dash \o suffix,
                          !.export_path = export_dir(model_name, o.platform)]
        ELSE LET lora_name == SplitTail(o.lora_id)
             IN  [base EXCEPT !.lora_name = lora_name,
                              !.lora_dir = S_models \o lora_name \o Slash,
                              !.export_name = model_name \o Dash \o lora_name
                                              \o Dash \o suffix,
                              !.export_path = S_models \o model_name \o Dash
                                              \o lora_name \o Dash
                                              \o o.platform \o Slash]

----------------------------------------------------------------------------
(* Inputs *)

M_llama == <<"o", "r", "g", "/", "l", "l", "a", "m", "a", "-", "x">>
M_m == <<"o", "r", "g", "/", "m">>
M_other == <<"o", "t", "h", "e", "r", "/", "m">>
L_a == <<"o", "r", "g", "/", "a">>
L_rk == <<"x", "/", "r", "k", "3", "5", "8", "8">>

\* Model identifiers given on the command line.
ModelIds == {M_llama, M_m, M_other}
\* Values given for --qtypes: two that rk3588 allows, one that only rk3576 allows.
QTypeArgs == {S_w8a8, S_w8a8_g128, S_w4a16}
\* Values given for --hybrid-rates, in hundredths: 0.0 and 0.5, and the
\* invalid -0.5 and 1.5.
RateArgs == {-50, 0, 50, 150}

\* The non-empty lists over S of at most n elements that name no value twice.
Lists(S, n) ==
    UNION {{l \in [1..k -> S] : \A i, j \in 1..k : l[i] = l[j] => i = j} :
           k \in 1..n}

\* The command lines of convert: every list non-empty (typer requires a
\* model and fills in the defaults of the two options).
ArgSetsOf(n) ==
    {a \in [model_ids : Lists(ModelIds, n),
            qtypes : Lists(QTypeArgs, n),
            hybrid_rates : Lists(RateArgs, n),
            optimization : BOOLEAN,
            platform : Platform] :
        Len(a.model_ids) * Len(a.qtypes) * Len(a.hybrid_rates) <= n}

ArgSets == ArgSetsOf(MaxCombos)

\* The object made by the class's default arguments (lines 23-29).
DefaultPipeline ==
    NewPipeline(EmptyStr, EmptyStr, S_rk3588, S_w8a8, FormatFloat(0), "HF", 1)

\* The fields of a HubHelpers object that the methods assign later.
NoHub ==
    [hf_token |-> Unset, hf_username |-> Unset, repo_id |-> Unset,
     repo_url |-> Unset, card_out |-> Unset, access |-> "unchecked"]

NoExc == [type |-> "none", site |-> "none"]

----------------------------------------------------------------------------
(* Helpers of the actions *)

\* The number of the request being processed (1 for the first).
Request == Len(resolved)

\* An external call may fail while fewer than MaxFaults calls have failed.
MayFail == Cardinality(faults) < MaxFaults

\* The outcomes of an external call that raises or returns: TRUE is success.
Outcomes == IF MayFail THEN {TRUE, FALSE} ELSE {TRUE}

\* The status codes the engine can return: 0 is success.
StatusCodes == IF MayFail THEN {0, 1, -1} ELSE {0}

Called(op, ok) == Append(calls, [op |-> op, ok |-> ok])

Failed(site, ok) == IF ok THEN faults ELSE faults \cup {<<Request, site>>}

\* The run's calls with one more: op, made for the current request with
\* the argument arg, returned (ok) or failed.
Logged(op, ok, arg) ==
    Append(trace, [req |-> Request, op |-> op, ok |-> ok, arg |-> arg])

\* Three loops nested the other way round: the model innermost.
NextCombination_model_innermost ==
    IF mi < Len(args.model_ids)
    THEN /\ mi' = mi + 1 /\ UNCHANGED <<qi, hi>> /\ pc' = "new_request"
    ELSE IF qi < Len(args.qtypes)
    THEN /\ mi' = 1 /\ qi' = qi + 1 /\ UNCHANGED hi /\ pc' = "new_request"
    ELSE IF hi < Len(args.hybrid_rates)
    THEN /\ mi' = 1 /\ qi' = 1 /\ hi' = hi + 1 /\ pc' = "new_request"
    ELSE /\ UNCHANGED <<mi, qi, hi>> /\ pc' = "done"

\* The loop header of convert (lines 355-357): the next combination, or the
\* end of the three loops.
NextCombination ==
    IF hi < Len(args.hybrid_rates)
    THEN /\ hi' = hi + 1 /\ UNCHANGED <<mi, qi>> /\ pc' = "new_request"
    ELSE IF qi < Len(args.qtypes)
    THEN /\ hi' = 1 /\ qi' = qi + 1 /\ UNCHANGED mi /\ pc' = "new_request"
    ELSE IF mi < Len(args.model_ids)
    THEN /\ hi' = 1 /\ qi' = 1 /\ mi' = mi + 1 /\ pc' = "new_request"
    ELSE /\ UNCHANGED <<mi, qi, hi>> /\ pc' = "done"

\* A driver whose try has no except clause: every exception ends the program.
RaiseUncaught(e, site, inTry) ==
    /\ pc' = IF caller = "convert" THEN "aborted" ELSE "raised"
    /\ exc' = [type |-> e, site |-> site]
    /\ UNCHANGED <<mi, qi, hi, failures>>

\* An exception of type e raised at site.  Inside the try of convert (lines
\* 377-385) a RuntimeError is caught, reported, and the loop goes on; any
\* other exception, or any exception outside the try, ends the program.
Raise(e, site, inTry) ==
    IF caller = "convert" /\ inTry /\ e = "RuntimeError"
    THEN /\ failures' = failures + 1
         /\ NextCombination
         /\ UNCHANGED exc
    ELSE /\ pc' = IF caller = "convert" THEN "aborted" ELSE "raised"
         /\ exc' = [type |-> e, site |-> site]
         /\ UNCHANGED <<mi, qi, hi, failures>>

----------------------------------------------------------------------------
(* convert: validation and the driver loop *)

\* A validation that has lost its rk3576 branch.
ValidQTypes_rk3588_only(platform, qtypes) ==
    IF platform = S_rk3588
    THEN \A i \in 1..Len(qtypes) : qtypes[i] \in QTypesRk3588
    ELSE TRUE

\* Lines 349-352: every qtype must be a value of the platform's enumeration;
\* constructing the enumeration member of any other string is a ValueError.
ValidQTypes(platform, qtypes) ==
    IF platform = S_rk3588
    THEN \A i \in 1..Len(qtypes) : qtypes[i] \in QTypesRk3588
    ELSE IF platform = S_rk3576
    THEN \A i \in 1..Len(qtypes) : qtypes[i] \in QTypesRk3576
    ELSE TRUE

\* Line 353: 0 <= hybrid_rate <= 1 for every rate (rates are in hundredths).
ValidRates(rates) == \A i \in 1..Len(rates) : 0 <= rates[i] /\ rates[i] <= 100

\* convert, lines 348-353: validation, before the loops.
convert_validate ==
    /\ pc = "validate"
    /\ UNCHANGED trace
    /\ IF ~ValidQTypes(args.platform, args.qtypes)
       THEN Raise("ValueError", "validate", FALSE)
       ELSE IF ~ValidRates(args.hybrid_rates)
       THEN Raise("AssertionError", "validate", FALSE)
       ELSE /\ pc' = "new_request"
            /\ UNCHANGED <<mi, qi, hi, failures, exc>>
    /\ UNCHANGED <<caller, args, rk, hf, calls, faults, resolved, uploaded,
                   dirs, files>>

\* convert, lines 358-374: the pipeline object of one combination, its
\* build_vars, and the HubHelpers object.  f"{platform}" and f"{qtype}" are
\* the strings themselves (the platform enumeration formats as its value on
\* the Python versions the engine supports); f"{hybrid_rate}" formats a float.
\* A driver that logs in for the first combination only.
first_step_login_once(n) == IF n = 0 THEN "login_token" ELSE "repo_check"

\* Where a combination starts after its objects were made: hf.login_to_hf()
\* is the first call of every iteration (line 375); n combinations were
\* started before.
first_step(n) == "login_token"

convert_new_request ==
    /\ pc = "new_request"
    /\ UNCHANGED trace
    /\ LET o == NewPipeline(args.model_ids[mi], EmptyStr, args.platform,
                            args.qtypes[qi], FormatFloat(args.hybrid_rates[hi]),
                            "HF", IF args.optimization THEN 1 ELSE 0)
       IN  IF SplitTail(o.model_id) = Unset
           THEN /\ Raise("IndexError", "build_vars", FALSE)
                /\ UNCHANGED <<rk, hf, calls, resolved>>
           ELSE /\ rk' = build_vars(o)
                /\ hf' = NoHub
                /\ calls' = << >>
                /\ resolved' = Append(resolved, rk')
                /\ pc' = first_step(Len(resolved))
                /\ UNCHANGED <<mi, qi, hi, failures, exc>>
    /\ UNCHANGED <<caller, args, faults, uploaded, dirs, files>>

----------------------------------------------------------------------------
(* HubHelpers.login_to_hf and repo_check *)

\* The token the hub accepts, and one it rejects.
GoodToken == <<"h", "f", "_", "o", "k">>
BadToken == <<"h", "f", "_", "b", "a", "d">>

\* login_to_hf, lines 226-236: the token is read from the cache file or
\* asked for; the hub may or may not accept the token that is found.
login_to_hf_token ==
    /\ pc = "login_token"
    /\ \E ok \in Outcomes :
          /\ hf' = [hf EXCEPT !.hf_token = IF ok THEN GoodToken ELSE BadToken]
          /\ faults' = Failed("token", ok)
          /\ trace' = Logged("read_token", TRUE,
                             IF ok THEN GoodToken ELSE BadToken)
    /\ calls' = Called("read_token", TRUE)
    /\ pc' = "login"
    /\ UNCHANGED <<caller, args, mi, qi, hi, rk, resolved, uploaded,
                   failures, dirs, files, exc>>

\* The hub accepts the token: login and whoami raise for any other token.
hub_accepts(token) == token = GoodToken

\* login_to_hf, lines 237-245: login; any exception is caught and printed.
login_to_hf_login ==
    /\ pc = "login"
    /\ trace' = Logged("login", hub_accepts(hf.hf_token), hf.hf_token)
    /\ calls' = Called("login", hub_accepts(hf.hf_token))
    /\ pc' = "whoami"
    /\ UNCHANGED <<caller, args, mi, qi, hi, rk, hf, faults, resolved, uploaded,
                   failures, dirs, files, exc>>

\* login_to_hf, lines 246-247: whoami, outside the try of login_to_hf and
\* outside the try of convert.
login_to_hf_whoami ==
    /\ pc = "whoami"
    /\ UNCHANGED trace
    /\ calls' = Called("whoami", hub_accepts(hf.hf_token))
    /\ IF hub_accepts(hf.hf_token)
       THEN /\ hf' = [hf EXCEPT !.hf_username = S_user]
            /\ pc' = "repo_check"
            /\ UNCHANGED <<mi, qi, hi, failures, exc>>
       ELSE /\ Raise("HTTPError", "whoami", FALSE)
            /\ UNCHANGED hf
    /\ UNCHANGED <<caller, args, rk, faults, resolved, uploaded, dirs, files>>

\* A repo_check that lets every exception of auth_check through.
repo_check_raises_any(r) == r # "ok"

\* The outcomes of auth_check that leave repo_check as an exception: the
\* two except clauses (lines 208, 214) take the gated and the not-found
\* repository.
repo_check_raises(r) == r = "error"

\* repo_check, lines 201-219: auth_check; GatedRepoError and
\* RepositoryNotFoundError are caught and printed, any other exception
\* leaves repo_check and convert.
repo_check ==
    /\ pc = "repo_check"
    /\ UNCHANGED trace
    /\ \E r \in {"ok"} \cup (IF MayFail THEN {"gated", "notfound", "error"} ELSE {}) :
          /\ calls' = Called("auth_check", r = "ok")
          /\ faults' = Failed("auth_check", r = "ok")
          /\ hf' = [hf EXCEPT !.access = r]
          /\ IF repo_check_raises(r)
             THEN Raise("HTTPError", "auth_check", FALSE)
             ELSE /\ pc' = "mkpath"
                  /\ UNCHANGED <<mi, qi, hi, failures, exc>>
    /\ UNCHANGED <<caller, args, rk, resolved, uploaded, dirs, files>>

----------------------------------------------------------------------------
(* RKLLMRemotePipeline.remote_pipeline_to_local *)

\* A status test that takes no code for a failure.
failed_status_never(status) == FALSE

\* A status test that takes only positive codes for failures.
failed_status_positive(status) == status > 0

\* The test "status != 0" after load, build and export (lines 140, 147,
\* 166, 172).
failed_status(status) == status # 0

\* Where control goes when remote_pipeline_to_local returns.
AfterPipeline == IF caller = "convert" THEN "create_repo" ELSE "returned"

\* A pipeline that calls cleanup_models before it makes its directories.
pipeline_mkpath_cleaning ==
    /\ pc = "mkpath"
    /\ UNCHANGED trace
    /\ dirs' = {rk.model_dir, rk.export_path}
    /\ files' = {}
    /\ calls' = Called("mkpath", TRUE)
    /\ pc' = "download_base"
    /\ UNCHANGED <<caller, args, mi, qi, hi, rk, hf, faults, resolved,
                   uploaded, failures, exc>>

\* Lines 105-107: mkpath of the model directory and of the export directory.
pipeline_mkpath ==
    /\ pc = "mkpath"
    /\ UNCHANGED trace
    /\ dirs' = dirs \cup {rk.model_dir, rk.export_path}
    /\ calls' = Called("mkpath", TRUE)
    /\ pc' = "download_base"
    /\ UNCHANGED <<caller, args, mi, qi, hi, rk, hf, faults, resolved,
                   uploaded, failures, files, exc>>

\* Lines 112-114: snapshot_download of the base model; its exceptions are
\* not caught here.
pipeline_download_base ==
    /\ pc = "download_base"
    /\ UNCHANGED trace
    /\ \E ok \in Outcomes :
          /\ calls' = Called("snapshot_download", ok)
          /\ faults' = Failed("snapshot_download", ok)
          /\ IF ok
             THEN /\ rk' = [rk EXCEPT !.modelpath = rk.model_dir]
                  /\ pc' = "download_lora"
                  /\ UNCHANGED <<mi, qi, hi, failures, exc>>
             ELSE /\ Raise("HTTPError", "snapshot_download", TRUE)
                  /\ UNCHANGED rk
    /\ UNCHANGED <<caller, args, hf, resolved, uploaded, dirs, files>>

\* The test of line 116.
lora_skipped(o) == o.lora_id = None

\* The outcomes of snapshot_download for the adapter: the hub client rejects
\* an empty repository id before any request is made.
LoraOutcomes == IF rk.lora_id = EmptyStr THEN {FALSE} ELSE Outcomes

\* Lines 116-128: the adapter.  The except clause evaluates the comparison
\* self.lorapath == None, which reads the attribute and assigns nothing.
pipeline_download_lora ==
    /\ pc = "download_lora"
    /\ UNCHANGED trace
    /\ IF lora_skipped(rk)
       THEN /\ pc' = "rkllm"
            /\ UNCHANGED <<rk, calls, faults, dirs, mi, qi, hi, failures, exc>>
       ELSE \E ok \in LoraOutcomes :
               /\ calls' = Called("snapshot_download_lora", ok)
               /\ faults' = IF rk.lora_id = EmptyStr THEN faults
                            ELSE Failed("snapshot_download_lora", ok)
               /\ IF ok
                  THEN /\ rk' = [rk EXCEPT !.lorapath = rk.lora_dir]
                       /\ dirs' = dirs \cup {rk.lora_dir}
                       /\ pc' = "rkllm"
                       /\ UNCHANGED <<mi, qi, hi, failures, exc>>
                  ELSE /\ IF rk.lorapath = Unset
                          THEN Raise("AttributeError", "lorapath", TRUE)
                          ELSE /\ pc' = "rkllm"
                               /\ UNCHANGED <<mi, qi, hi, failures, exc>>
                       /\ UNCHANGED <<rk, dirs>>
    /\ UNCHANGED <<caller, args, hf, resolved, uploaded, files>>

\* Lines 130-133: the engine object.
pipeline_rkllm ==
    /\ pc = "rkllm"
    /\ UNCHANGED trace
    /\ calls' = Called("RKLLM", TRUE)
    /\ pc' = "load"
    /\ UNCHANGED <<caller, args, mi, qi, hi, rk, hf, faults, resolved,
                   uploaded, failures, dirs, files, exc>>

\* Lines 135-153: load by library_type; a non-zero status and an unknown
\* library_type are RuntimeErrors.
pipeline_load ==
    /\ pc = "load"
    /\ UNCHANGED trace
    /\ IF rk.library_type \in {"HF", "GGUF"}
       THEN \E status \in StatusCodes :
               /\ calls' = Called(IF rk.library_type = "HF"
                                  THEN "load_huggingface" ELSE "load_gguf",
                                  status = 0)
               /\ faults' = Failed("load", status = 0)
               /\ rk' = [rk EXCEPT !.status = status,
                                   !.lora_arg = IF rk.library_type = "HF"
                                                THEN rk.lorapath ELSE Unset]
               /\ IF failed_status(status)
                  THEN Raise("RuntimeError", "load", TRUE)
                  ELSE /\ pc' = "build"
                       /\ UNCHANGED <<mi, qi, hi, failures, exc>>
       ELSE /\ Raise("RuntimeError", "library_type", TRUE)
            /\ UNCHANGED <<rk, calls, faults>>
    /\ UNCHANGED <<caller, args, hf, resolved, uploaded, dirs, files>>

\* The keyword arguments of self.rkllm.build (lines 158-165).
build_params(o) ==
    [optimization_level |-> o.optimization, quantized_dtype |-> o.qtype,
     target_platform |-> o.platform, num_npu_core |-> o.npu_cores,
     extra_qparams |-> o.qparams, dataset |-> o.dataset]

\* Lines 155-169: build; reading self.npu_cores fails when build_vars did
\* not assign it.
pipeline_build ==
    /\ pc = "build"
    /\ IF rk.npu_cores = 0
       THEN /\ Raise("AttributeError", "npu_cores", TRUE)
            /\ UNCHANGED <<rk, calls, faults, trace>>
       ELSE \E status \in StatusCodes :
               /\ calls' = Called("build", status = 0)
               /\ trace' = Logged("build", status = 0, build_params(rk))
               /\ faults' = Failed("build", status = 0)
               /\ rk' = [rk EXCEPT !.status = status]
               /\ IF failed_status(status)
                  THEN Raise("RuntimeError", "build", TRUE)
                  ELSE /\ pc' = "export"
                       /\ UNCHANGED <<mi, qi, hi, failures, exc>>
    /\ UNCHANGED <<caller, args, hf, resolved, uploaded, dirs, files>>

\* The path given to export_rkllm (line 171).
artifact_path(o) == o.export_path \o o.export_name \o S_rkllm

\* Lines 171-175: export.
pipeline_export ==
    /\ pc = "export"
    /\ \E status \in StatusCodes :
          /\ calls' = Called("export_rkllm", status = 0)
          /\ trace' = Logged("export_rkllm", status = 0, artifact_path(rk))
          /\ faults' = Failed("export_rkllm", status = 0)
          /\ rk' = [rk EXCEPT !.status = status]
          /\ IF failed_status(status)
             THEN /\ Raise("RuntimeError", "export_rkllm", TRUE)
                  /\ UNCHANGED files
             ELSE /\ files' = files \cup {artifact_path(rk)}
                  /\ pc' = AfterPipeline
                  /\ UNCHANGED <<mi, qi, hi, failures, exc>>
    /\ UNCHANGED <<caller, args, hf, resolved, uploaded, dirs>>

----------------------------------------------------------------------------
(* HubHelpers.upload_to_repo and build_card *)

\* A repository id that leaves out the platform.
repo_id_no_platform(username, model, platform, version) ==
    username \o Slash \o model \o Dash \o version

\* self.repo_id of upload_to_repo (lines 289-291); model is rk.model_name.
repo_id(username, model, platform, version) ==
    username \o Slash \o model \o Dash \o platform \o Dash \o version

\* An upload_to_repo whose create_repo is not in a try: its exception leaves
\* the call.
upload_create_repo_propagating ==
    /\ pc = "create_repo"
    /\ \E ok \in Outcomes :
          LET id == repo_id(hf.hf_username, rk.model_name, rk.platform,
                            rk.rkllm_version)
          IN  /\ calls' = Called("create_repo", ok)
              /\ trace' = Logged("create_repo", ok, id)
              /\ faults' = Failed("create_repo", ok)
              /\ hf' = [hf EXCEPT !.repo_id = id,
                                  !.repo_url = IF ok THEN id ELSE @]
              /\ IF ok
                 THEN /\ pc' = "build_card"
                      /\ UNCHANGED <<mi, qi, hi, failures, exc>>
                 ELSE Raise("HTTPError", "create_repo", TRUE)
    /\ UNCHANGED <<caller, args, rk, resolved, uploaded, dirs, files>>

\* Lines 288-299: the repository id and create_repo, whose exceptions are
\* caught and printed; repo_url is assigned only when create_repo returns.
upload_create_repo ==
    /\ pc = "create_repo"
    /\ \E ok \in Outcomes :
          LET id == repo_id(hf.hf_username, rk.model_name, rk.platform,
                            rk.rkllm_version)
          IN  /\ calls' = Called("create_repo", ok)
              /\ trace' = Logged("create_repo", ok, id)
              /\ faults' = Failed("create_repo", ok)
              /\ hf' = [hf EXCEPT !.repo_id = id,
                                  !.repo_url = IF ok THEN id ELSE @]
    /\ pc' = "build_card"
    /\ UNCHANGED <<caller, args, mi, qi, hi, rk, resolved, uploaded,
                   failures, dirs, files, exc>>

\* A build_card that catches the failure of ModelCard.load and lets
\* upload_to_repo go on without a card.
upload_build_card_lenient ==
    /\ pc = "build_card"
    /\ UNCHANGED trace
    /\ \E ok \in Outcomes :
          /\ calls' = Called("ModelCard.load", ok)
          /\ faults' = Failed("ModelCard.load", ok)
          /\ hf' = IF ok THEN [hf EXCEPT !.card_out = rk.export_path \o S_readme]
                    ELSE hf
          /\ files' = IF ok THEN files \cup {rk.export_path \o S_readme} ELSE files
    /\ pc' = "copytree"
    /\ UNCHANGED <<caller, args, mi, qi, hi, rk, resolved, uploaded, failures,
                   dirs, exc>>

\* build_card (lines 249-285), called at line 302: ModelCard.load of the
\* source model is not in a try; the card is saved as README.md in the
\* export directory.
upload_build_card ==
    /\ pc = "build_card"
    /\ UNCHANGED trace
    /\ \E ok \in Outcomes :
          /\ calls' = Called("ModelCard.load", ok)
          /\ faults' = Failed("ModelCard.load", ok)
          /\ IF ok
             THEN /\ hf' = [hf EXCEPT !.card_out = rk.export_path \o S_readme]
                  /\ files' = files \cup {rk.export_path \o S_readme}
                  /\ pc' = "copytree"
                  /\ UNCHANGED <<mi, qi, hi, failures, exc>>
             ELSE /\ Raise("HTTPError", "ModelCard.load", TRUE)
                  /\ UNCHANGED <<hf, files>>
    /\ UNCHANGED <<caller, args, rk, resolved, uploaded, dirs>>

\* Lines 303-313: the non-weight files of the model directory are copied
\* into the export directory.
upload_copytree ==
    /\ pc = "copytree"
    /\ UNCHANGED trace
    /\ calls' = Called("copytree", TRUE)
    /\ pc' = "upload_folder"
    /\ UNCHANGED <<caller, args, mi, qi, hi, rk, hf, faults, resolved,
                   uploaded, failures, dirs, files, exc>>

\* The path p is inside the directory dir (dir ends with "/").
InDir(dir, p) == Len(p) >= Len(dir) /\ SubSeq(p, 1, Len(dir)) = dir

\* What upload_folder sends (line 314): every file of the folder, whichever
\* request wrote it.
folder_contents(dir) == {f \in files : InDir(dir, f)}

\* Line 314: upload_folder, the last statement of the try body of convert.
\* The hub can refuse the upload to a repository whose creation failed,
\* whatever else has failed in the run.
upload_folder ==
    /\ pc = "upload_folder"
    /\ \E ok \in Outcomes \cup (IF hf.repo_url = Unset THEN {FALSE} ELSE {}) :
          /\ calls' = Called("upload_folder", ok)
          /\ trace' = Logged("upload_folder", ok,
                             [repo_id |-> hf.repo_id,
                              folder |-> folder_contents(rk.export_path)])
          /\ faults' = Failed("upload_folder", ok)
          /\ IF ok
             THEN /\ uploaded' = uploaded \cup {Request}
                  /\ NextCombination
                  /\ UNCHANGED <<failures, exc>>
             ELSE /\ Raise("HTTPError", "upload_folder", TRUE)
                  /\ UNCHANGED uploaded
    /\ UNCHANGED <<caller, args, rk, hf, resolved, dirs, files>>

----------------------------------------------------------------------------
(* The program run from the command line *)

Init ==
    /\ pc = "validate"
    /\ caller = "convert"
    /\ args \in ArgSets
    /\ mi = 1 /\ qi = 1 /\ hi = 1
    /\ rk = DefaultPipeline
    /\ hf = NoHub
    /\ calls = << >>
    /\ faults = {}
    /\ resolved = << >>
    /\ uploaded = {}
    /\ failures = 0
    /\ dirs = {}
    /\ files = {}
    /\ exc = NoExc
    /\ trace = << >>

Pipeline ==
    \/ pipeline_mkpath
    \/ pipeline_download_base
    \/ pipeline_download_lora
    \/ pipeline_rkllm
    \/ pipeline_load
    \/ pipeline_build
    \/ pipeline_export

Next ==
    \/ convert_validate
    \/ convert_new_request
    \/ login_to_hf_token
    \/ login_to_hf_login
    \/ login_to_hf_whoami
    \/ repo_check
    \/ Pipeline
    \/ upload_create_repo
    \/ upload_build_card
    \/ upload_copytree
    \/ upload_folder

Spec == Init /\ [][Next]_vars

----------------------------------------------------------------------------
(* The program run on a grid of combinations *)

\* Command lines with one combination more than MaxCombos, so that two of
\* the three lists can have two elements each.
InitProduct ==
    /\ pc = "validate"
    /\ caller = "convert"
    /\ args \in ArgSetsOf(MaxCombos + 1)
    /\ mi = 1 /\ qi = 1 /\ hi = 1
    /\ rk = DefaultPipeline
    /\ hf = NoHub
    /\ calls = << >>
    /\ faults = {}
    /\ resolved = << >>
    /\ uploaded = {}
    /\ failures = 0
    /\ dirs = {}
    /\ files = {}
    /\ exc = NoExc
    /\ trace = << >>

\* The interpreter runs the next statement whenever there is one, and the
\* external calls return or raise.
SpecProduct == InitProduct /\ [][Next]_vars /\ WF_vars(Next)

----------------------------------------------------------------------------
(* The pipeline class used on its own *)

\* Adapter identifiers: none, and two adapters.
LoraIds == {EmptyStr, L_a, L_rk}
\* Values given for library_type: the two the pipeline knows and one other.
LibraryTypes == {"HF", "GGUF", "ONNX"}

\* No command line.
NoArgs ==
    [model_ids |-> << >>, qtypes |-> << >>, hybrid_rates |-> << >>,
     optimization |-> TRUE, platform |-> S_rk3588]

\* RKLLMRemotePipeline(...) followed by build_vars(), by a caller other than
\* convert, which may name an adapter and a library type.
direct_construct ==
    /\ pc = "construct"
    /\ UNCHANGED trace
    /\ \E model_id \in ModelIds, lora_id \in LoraIds, platform \in Platform,
          qtype \in QTypeArgs, rate \in RateArgs,
          library_type \in LibraryTypes, optimization \in {0, 1} :
          rk' = build_vars(NewPipeline(model_id, lora_id, platform, qtype,
                                       FormatFloat(rate), library_type,
                                       optimization))
    /\ resolved' = Append(resolved, rk')
    /\ pc' = "mkpath"
    /\ UNCHANGED <<caller, args, mi, qi, hi, hf, calls, faults, uploaded,
                   failures, dirs, files, exc>>

InitPipeline ==
    /\ pc = "construct"
    /\ caller = "direct"
    /\ args = NoArgs
    /\ mi = 1 /\ qi = 1 /\ hi = 1
    /\ rk = DefaultPipeline
    /\ hf = NoHub
    /\ calls = << >>
    /\ faults = {}
    /\ resolved = << >>
    /\ uploaded = {}
    /\ failures = 0
    /\ dirs = {}
    /\ files = {}
    /\ exc = NoExc
    /\ trace = << >>

NextPipeline == direct_construct \/ Pipeline

SpecPipeline == InitPipeline /\ [][NextPipeline]_vars

----------------------------------------------------------------------------
(* build_vars as a function of two requests *)

\* RKLLMRemotePipeline(...) followed by build_vars(), for a first and then
\* a second request; nothing else is run.
names_resolve ==
    /\ pc = "resolve"
    /\ UNCHANGED trace
    /\ Len(resolved) < 2
    /\ \E model_id \in ModelIds, lora_id \in LoraIds, platform \in Platform,
          qtype \in QTypeArgs, rate \in RateArgs, optimization \in {0, 1} :
          rk' = build_vars(NewPipeline(model_id, lora_id, platform, qtype,
                                       FormatFloat(rate), "HF", optimization))
    /\ resolved' = Append(resolved, rk')
    /\ UNCHANGED <<pc, caller, args, mi, qi, hi, hf, calls, faults, uploaded,
                   failures, dirs, files, exc>>

InitNames ==
    /\ pc = "resolve"
    /\ caller = "direct"
    /\ args = NoArgs
    /\ mi = 1 /\ qi = 1 /\ hi = 1
    /\ rk = DefaultPipeline
    /\ hf = NoHub
    /\ calls = << >>
    /\ faults = {}
    /\ resolved = << >>
    /\ uploaded = {}
    /\ failures = 0
    /\ dirs = {}
    /\ files = {}
    /\ exc = NoExc
    /\ trace = << >>

NextNames == names_resolve

SpecNames == InitNames /\ [][NextNames]_vars

----------------------------------------------------------------------------
(* Properties *)

\* The calls of upload_to_repo.
UploadOps == {"create_repo", "ModelCard.load", "copytree", "upload_folder"}

\* Some call after the i-th call of the current request is one of ops.
CalledAfter(i, ops) == \E j \in (i + 1)..Len(calls) : calls[j].op \in ops

\* C1: fail-fast inside one request.  After a load call that returned a
\* non-zero status, the request calls neither build nor export_rkllm; after
\* a failed build it does not call export_rkllm; and after a failed load,
\* build or export it makes none of the calls of upload_to_repo.
C1_FailFast ==
    \A i \in 1..Len(calls) :
        ~calls[i].ok =>
            /\ calls[i].op \in {"load_huggingface", "load_gguf"}
                  => ~CalledAfter(i, {"build", "export_rkllm"} \cup UploadOps)
            /\ calls[i].op = "build"
                  => ~CalledAfter(i, {"export_rkllm"} \cup UploadOps)
            /\ calls[i].op = "export_rkllm"
                  => ~CalledAfter(i, UploadOps)

\* A build that returned a negative status was reported by convert, which
\* moved on to the next combination.
C1_Witness ==
    /\ pc = "new_request"
    /\ failures = 1
    /\ Len(calls) > 0
    /\ calls[Len(calls)].op = "build"
    /\ ~calls[Len(calls)].ok
    /\ rk.status < 0

\* The number of combinations of the command line.
Combinations == Len(args.model_ids) * Len(args.qtypes) * Len(args.hybrid_rates)

\* C2: batch isolation for engine failures.  When the only external call
\* that failed in a batch is the build of one combination, convert is not
\* ended by it, and when the batch has ended every combination was started,
\* every other combination reached the end of upload_folder and exactly one
\* failure was reported; in particular for a batch of three whose second
\* build fails.
C2_BatchIsolation ==
    \A n \in 1..Len(resolved) :
        faults = {<<n, "build">>}
            => /\ pc # "aborted"
               /\ pc = "done"
                     => /\ Len(resolved) = Combinations
                        /\ uploaded = (1..Len(resolved)) \ {n}
                        /\ failures = 1

\* A batch of three combinations has ended, the build of the second one
\* failed and nothing else did; the first and the third were uploaded.
C2_Witness ==
    /\ pc = "done"
    /\ Len(resolved) = 3
    /\ faults = {<<2, "build">>}
    /\ uploaded = {1, 3}

\* Where an exception can be raised while a combination is converted
\* (remote_pipeline_to_local) or published (upload_to_repo).
ConvertPublishSites ==
    {"snapshot_download", "lorapath", "library_type", "load", "npu_cores",
     "build", "export_rkllm", "ModelCard.load", "upload_folder"}

\* C3: batch isolation for every fatal error.  No exception raised while a
\* combination is converted or published ends the batch: convert catches it
\* and starts the later combinations.
C3_EveryFatalErrorCaught ==
    exc.site \in ConvertPublishSites => pc # "aborted"

\* C4: authentication never aborts the pipeline.  With a token the hub
\* rejects, login_to_hf returns and convert is not ended.
C4_AuthNeverAborts ==
    hf.hf_token = BadToken => pc # "aborted"

\* C5: adapter optionality.  For a request with no adapter (lora_id = ""),
\* build_vars leaves lora_name and lora_dir None and the pipeline makes no
\* snapshot_download call for the adapter.
C5_AdapterOptional ==
    (Len(resolved) > 0 /\ rk.lora_id = EmptyStr)
        => /\ rk.lora_name = None
           /\ rk.lora_dir = None
           /\ \A i \in 1..Len(calls) : calls[i].op # "snapshot_download_lora"

\* C6: degrade-not-fail on adapter download.  After the adapter download of
\* a request with a non-empty lora_id has raised, the request goes on: the
\* only thing that can still end it is a RuntimeError of the engine steps.
C6_DegradeNotFail ==
    \A i \in 1..Len(calls) :
        (rk.lora_id # EmptyStr /\ calls[i].op = "snapshot_download_lora"
                               /\ ~calls[i].ok)
            => (pc = "raised"
                  => /\ exc.type = "RuntimeError"
                     /\ exc.site \in {"load", "build", "export_rkllm"})

\* The quantization types the claim lists for each platform.
C7_Allowed(platform) ==
    IF platform = <<"r", "k", "3", "5", "8", "8">>
    THEN {S_w8a8, S_w8a8_g128, S_w8a8_g256, S_w8a8_g512}
    ELSE {S_w8a8, S_w4a16, S_w4a16_g32, S_w4a16_g64, S_w4a16_g128}

\* The command line has a qtype outside the platform's set or a hybrid rate
\* outside [0, 1].
C7_InvalidArgs ==
    \/ \E i \in 1..Len(args.qtypes) : args.qtypes[i] \notin C7_Allowed(args.platform)
    \/ \E i \in 1..Len(args.hybrid_rates) :
          args.hybrid_rates[i] < 0 \/ args.hybrid_rates[i] > 100

\* C7: validation precedes all network activity.  With an invalid qtype or
\* hybrid rate anywhere in the command line, convert starts no combination
\* and makes no external call, creates no directory and writes no file.
C7_ValidationFirst ==
    (caller = "convert" /\ C7_InvalidArgs)
        => /\ pc \in {"validate", "aborted"}
           /\ resolved = << >>
           /\ calls = << >>
           /\ uploaded = {}
           /\ dirs = {}
           /\ files = {}

\* convert was aborted by the validation of a command line that names a
\* valid qtype first and an invalid one after it.
C7_Witness ==
    /\ pc = "aborted"
    /\ exc.site = "validate"
    /\ Len(args.qtypes) >= 2
    /\ args.qtypes[1] \in C7_Allowed(args.platform)
    /\ args.qtypes[2] \notin C7_Allowed(args.platform)

\* C8: an unrecognized library_type is fatal before any I/O.  When it is
\* raised, no directory was created and no download or engine call was made.
C8_LibraryTypeBeforeIO ==
    exc.site = "library_type" => (dirs = {} /\ calls = << >>)

\* Two requests differ in one of the fields the claim lists.
C9_Differ(a, b) ==
    \/ a.qtype # b.qtype
    \/ a.hybrid_rate # b.hybrid_rate
    \/ a.optimization # b.optimization
    \/ a.platform # b.platform
    \/ (a.lora_id = EmptyStr) # (b.lora_id = EmptyStr)

\* C9: name uniqueness.  Two requests with the same model_id that differ in
\* qtype, hybrid_rate, optimization level, platform or adapter presence get
\* different export_name values from build_vars.
C9_NameUniqueness ==
    Len(resolved) = 2 =>
        ((resolved[1].model_id = resolved[2].model_id
              /\ C9_Differ(resolved[1], resolved[2]))
            => resolved[1].export_name # resolved[2].export_name)

\* Two requests without adapter that differ in the hybrid rate only.
C9_Witness ==
    /\ Len(resolved) = 2
    /\ resolved[1].model_id = resolved[2].model_id
    /\ resolved[1].lora_id = EmptyStr /\ resolved[2].lora_id = EmptyStr
    /\ resolved[1].qtype = resolved[2].qtype
    /\ resolved[1].platform = resolved[2].platform
    /\ resolved[1].optimization = resolved[2].optimization
    /\ resolved[1].hybrid_rate # resolved[2].hybrid_rate
    /\ resolved[1].export_name # resolved[2].export_name

\* C10 as stated: per-request directory isolation.  Any two combinations of
\* one convert call have different export_path values.
C10_DirectoryPerRequest ==
    \A i, j \in 1..Len(resolved) :
        i # j => resolved[i].export_path # resolved[j].export_path

\* C10 as amended: the export directory is per model name.  Two
\* combinations of one convert call have different export_path values
\* exactly when their model names differ; two that share a model name and
\* differ in qtype or hybrid rate write different artifact files.
C10_DirectoryPerModelName ==
    \A i, j \in 1..Len(resolved) :
        i # j =>
            /\ (resolved[i].export_path = resolved[j].export_path)
                  <=> (resolved[i].model_name = resolved[j].model_name)
            /\ (resolved[i].model_name = resolved[j].model_name
                  /\ (resolved[i].qtype # resolved[j].qtype
                        \/ resolved[i].hybrid_rate # resolved[j].hybrid_rate))
                  => artifact_path(resolved[i]) # artifact_path(resolved[j])

\* Two combinations of one batch for the same model with different qtypes
\* were started and share their export directory.
C10_Witness ==
    /\ caller = "convert"
    /\ Len(resolved) >= 2
    /\ resolved[1].model_id = resolved[2].model_id
    /\ resolved[1].qtype # resolved[2].qtype
    /\ resolved[1].export_path = resolved[2].export_path

\* The entries of the run's calls that are upload_folder calls.
Uploads == {k \in 1..Len(trace) : trace[k].op = "upload_folder"}

\* C11 as stated: the repository a combination is published to is named
\* "<username>/<export_name>-<platform>-<version>" after the request's
\* export name.
C11_RepoNamedByExportName ==
    \A k \in Uploads :
        trace[k].arg.repo_id =
            S_user \o <<"/">> \o resolved[trace[k].req].export_name \o <<"-">>
                   \o resolved[trace[k].req].platform \o <<"-">>
                   \o <<"1", ".", "1", ".", "4">>

\* C11 as amended: the repository is named
\* "<username>/<model_name>-<platform>-<version>" after the model name, so
\* two combinations of one batch for the same model name are published to
\* the same repository id, whatever their qtype and hybrid rate.
C11_RepoNamedByModelName ==
    /\ \A k \in Uploads :
          trace[k].arg.repo_id =
              S_user \o <<"/">> \o resolved[trace[k].req].model_name \o <<"-">>
                     \o resolved[trace[k].req].platform \o <<"-">>
                     \o <<"1", ".", "1", ".", "4">>
    /\ \A k, l \in Uploads :
          resolved[trace[k].req].model_name = resolved[trace[l].req].model_name
              => trace[k].arg.repo_id = trace[l].arg.repo_id

\* Two combinations with different qtypes were handed to upload_folder with
\* the same repository id.
C11_Witness ==
    \E k, l \in Uploads :
        /\ trace[k].ok /\ trace[l].ok
        /\ resolved[trace[k].req].qtype # resolved[trace[l].req].qtype
        /\ trace[k].arg.repo_id = trace[l].arg.repo_id

\* C12: the accessibility check is advisory only.  Whether repo_check finds
\* the source repository accessible, gated or missing, it raises nothing,
\* and convert goes on to remote_pipeline_to_local: the calls that follow
\* auth_check are mkpath and the snapshot_download of the base model.
C12_CheckIsAdvisory ==
    \A i \in 1..Len(calls) :
        (calls[i].op = "auth_check" /\ hf.access \in {"ok", "gated", "notfound"})
            => /\ exc.site # "auth_check"
               /\ Len(calls) = i => pc = "mkpath"
               /\ Len(calls) = i + 1 => (calls[i + 1].op = "mkpath"
                                           /\ pc = "download_base")
               /\ Len(calls) > i + 1 => calls[i + 2].op = "snapshot_download"

\* The source repository was found gated and the download of the base model
\* was attempted all the same.
C12_Witness ==
    /\ hf.access = "gated"
    /\ \E i \in 1..Len(calls) : calls[i].op = "snapshot_download"

\* C13: a failure of create_repo is not propagated.  When create_repo has
\* raised in upload_to_repo, no exception leaves the call at that point and
\* the request holds no repository URL; the same call goes on to
\* ModelCard.load, to copytree and to upload_folder, in that order, and when
\* the card was built the only failure that can end the request is the one
\* of upload_folder.
C13_CreateRepoNotPropagated ==
    \A i \in 1..Len(calls) :
        (calls[i].op = "create_repo" /\ ~calls[i].ok)
            => /\ hf.repo_url = Unset
               /\ exc.site # "create_repo"
               /\ Len(calls) = i => pc = "build_card"
               /\ Len(calls) > i => calls[i + 1].op = "ModelCard.load"
               /\ (Len(calls) > i /\ calls[i + 1].ok)
                     => /\ Len(calls) = i + 1 => pc = "copytree"
                        /\ Len(calls) > i + 1 => calls[i + 2].op = "copytree"
                        /\ Len(calls) = i + 2 => pc = "upload_folder"
                        /\ Len(calls) > i + 2
                              => calls[i + 3].op = "upload_folder"
                        /\ pc = "aborted" => exc.site = "upload_folder"

\* create_repo failed, the card was built, the files were copied, and the
\* request was ended by the failure of upload_folder.
C13_Witness ==
    /\ pc = "aborted"
    /\ exc.site = "upload_folder"
    /\ hf.repo_url = Unset
    /\ \E i \in 1..Len(calls) : calls[i].op = "create_repo" /\ ~calls[i].ok
    /\ \E i \in 1..Len(calls) : calls[i].op = "copytree"

\* The current request's load, build and export calls have all been made
\* and have all returned status 0.
EngineSucceeded ==
    /\ \E i \in 1..Len(calls) :
          calls[i].op \in {"load_huggingface", "load_gguf"} /\ calls[i].ok
    /\ \E i \in 1..Len(calls) : calls[i].op = "build" /\ calls[i].ok
    /\ \E i \in 1..Len(calls) : calls[i].op = "export_rkllm" /\ calls[i].ok

\* C14 as stated: publish state is built only after a successful build.
\* None of the repository URL, the authenticated user name and the model
\* card of a combination is computed before its load, build and export
\* have returned 0.
C14_PublishStateAfterBuild ==
    (hf.repo_url # Unset \/ hf.hf_username # Unset \/ hf.card_out # Unset)
        => EngineSucceeded

\* C14 as amended: the repository URL and the model card of a combination
\* are computed only after its load, build and export have returned 0, and
\* create_repo and ModelCard.load are called only then; the authenticated
\* user name is computed by login_to_hf before the conversion starts.
C14_RepoAndCardAfterBuild ==
    /\ (\/ hf.repo_url # Unset
        \/ hf.card_out # Unset
        \/ \E i \in 1..Len(calls) :
              calls[i].op \in {"create_repo", "ModelCard.load"})
          => EngineSucceeded
    /\ (\E i \in 1..Len(calls) : calls[i].op = "mkpath")
          => hf.hf_username # Unset

\* A request whose load, build and export returned 0 has its repository
\* URL and its model card, and had its user name before.
C14_Witness ==
    /\ pc = "copytree"
    /\ EngineSucceeded
    /\ hf.hf_username = S_user
    /\ hf.repo_url # Unset
    /\ hf.card_out # Unset

\* The entries of the run's calls that are build calls.
Builds == {k \in 1..Len(trace) : trace[k].op = "build"}

\* C15: the build step receives parameters derived from the hybrid rate.
\* Two requests of a batch that differ only in hybrid_rate call the
\* engine's build with different extra quantization parameters, next to the
\* request's optimization level, qtype, platform, npu_cores and no dataset.
C15_BuildGetsHybridRate ==
    \A k, l \in Builds :
        LET a == resolved[trace[k].req]
            b == resolved[trace[l].req]
        IN  /\ trace[k].arg.optimization_level = a.optimization
            /\ trace[k].arg.quantized_dtype = a.qtype
            /\ trace[k].arg.target_platform = a.platform
            /\ trace[k].arg.num_npu_core = a.npu_cores
            /\ trace[k].arg.dataset = None
            /\ (/\ a.model_id = b.model_id
                /\ a.qtype = b.qtype
                /\ a.platform = b.platform
                /\ a.optimization = b.optimization
                /\ a.hybrid_rate # b.hybrid_rate)
                  => trace[k].arg.extra_qparams # trace[l].arg.extra_qparams

\* The entries of the run's calls that read the token, and that log in.
TokenReads == {k \in 1..Len(trace) : trace[k].op = "read_token"}
Logins == {k \in 1..Len(trace) : trace[k].op = "login"}

\* C16 as stated: the token is read once per batch.  Over a convert run
\* with two or more combinations the token is read and login is performed
\* exactly once.
C16_TokenReadOncePerBatch ==
    (pc = "done" /\ Len(resolved) >= 2)
        => (Cardinality(TokenReads) = 1 /\ Cardinality(Logins) = 1)

\* C16 as amended: the token is read once per combination.  The first two
\* calls of every combination read the token and log in with it, no later
\* call of the combination does, the hub calls of the combination use the
\* token it read, and the run has read the token as many times as it has
\* started combinations.
C16_TokenReadPerCombination ==
    /\ (Len(resolved) > 0 /\ pc \notin {"login_token", "login"})
          => /\ Len(calls) >= 2
             /\ calls[1].op = "read_token"
             /\ calls[2].op = "login"
             /\ calls[2].ok = hub_accepts(hf.hf_token)
             /\ \A i \in 3..Len(calls) :
                   calls[i].op \notin {"read_token", "login"}
    /\ (/\ Len(trace) > 0
        /\ trace[Len(trace)].op = "login"
        /\ trace[Len(trace)].req = Request)
          => /\ trace[Len(trace)].arg = hf.hf_token
             /\ trace[Len(trace) - 1].op = "read_token"
             /\ trace[Len(trace) - 1].arg = hf.hf_token
    /\ Cardinality(TokenReads)
          = Len(resolved) - (IF pc = "login_token" THEN 1 ELSE 0)

\* A batch of three combinations has ended and the token was read three
\* times.
C16_Witness ==
    /\ pc = "done"
    /\ Len(resolved) = 3
    /\ Cardinality(TokenReads) = 3
    /\ Cardinality(Logins) = 3

\* The entries of the run's calls that are export_rkllm calls.
Exports == {k \in 1..Len(trace) : trace[k].op = "export_rkllm"}

\* The request of the scenario: model "org/llama-x", platform rk3588, qtype
\* "w8a8", hybrid rate 0.0, optimization on, no adapter.
C17_Scenario(r) ==
    /\ r.model_id = M_llama
    /\ r.platform = S_rk3588
    /\ r.qtype = S_w8a8
    /\ r.hybrid_rate = <<"0", ".", "0">>
    /\ r.optimization = 1
    /\ r.lora_id = EmptyStr

\* "./models/org-llama-x-rk3588/llama-x-rk3588-w8a8-opt-1-hybrid-ratio-0.0.rkllm"
C17_PathWithOrg ==
    <<".", "/", "m", "o", "d", "e", "l", "s", "/", "o", "r", "g",
      "-", "l", "l", "a", "m", "a", "-", "x", "-", "r", "k", "3",
      "5", "8", "8", "/", "l", "l", "a", "m", "a", "-", "x", "-",
      "r", "k", "3", "5", "8", "8", "-", "w", "8", "a", "8", "-",
      "o", "p", "t", "-", "1", "-", "h", "y", "b", "r", "i", "d",
      "-", "r", "a", "t", "i", "o", "-", "0", ".", "0", ".", "r",
      "k", "l", "l", "m">>

\* "./models/llama-x-rk3588/llama-x-rk3588-w8a8-opt-1-hybrid-ratio-0.0.rkllm"
C17_PathWithoutOrg ==
    <<".", "/", "m", "o", "d", "e", "l", "s", "/", "l", "l", "a",
      "m", "a", "-", "x", "-", "r", "k", "3", "5", "8", "8", "/",
      "l", "l", "a", "m", "a", "-", "x", "-", "r", "k", "3", "5",
      "8", "8", "-", "w", "8", "a", "8", "-", "o", "p", "t", "-",
      "1", "-", "h", "y", "b", "r", "i", "d", "-", "r", "a", "t",
      "i", "o", "-", "0", ".", "0", ".", "r", "k", "l", "l", "m">>

\* C17 as stated: for the request of the scenario the path given to the
\* engine's export call is the directory "./models/org-llama-x-rk3588/"
\* followed by "llama-x-rk3588-w8a8-opt-1-hybrid-ratio-0.0.rkllm".
C17_ExportPathWithOrg ==
    \A k \in Exports :
        C17_Scenario(resolved[trace[k].req]) => trace[k].arg = C17_PathWithOrg

\* C17 as amended: for the request of the scenario the path given to the
\* engine's export call is the directory "./models/llama-x-rk3588/", named
\* after the part of the model id behind the first "/", followed by
\* "llama-x-rk3588-w8a8-opt-1-hybrid-ratio-0.0.rkllm"; when no external call
\* of the request fails, the request is published and ends with a
\* repository URL.  (Every export call is the latest call of the run in the
\* state it is made in, for the request rk.)
C17_ExportPathOfScenario ==
    /\ (/\ Len(trace) > 0
        /\ trace[Len(trace)].op = "export_rkllm"
        /\ trace[Len(trace)].req = Request
        /\ C17_Scenario(rk))
          => trace[Len(trace)].arg = C17_PathWithoutOrg
    /\ (/\ Len(resolved) > 0
        /\ C17_Scenario(rk)
        /\ pc \in {"new_request", "done"}
        /\ \A f \in faults : f[1] # Request)
          => /\ Request \in uploaded
             /\ \E k \in Exports : trace[k].req = Request /\ trace[k].ok
             /\ hf.repo_url # Unset
             /\ hf.repo_url # None

\* The request of the scenario was exported to its path and published.
C17_Witness ==
    /\ pc = "done"
    /\ C17_Scenario(rk)
    /\ Request \in uploaded
    /\ hf.repo_url # Unset
    /\ \E k \in Exports : trace[k].req = Request
                            /\ trace[k].arg = C17_PathWithoutOrg

\* The place of the n-th combination in the three lists when the model is
\* the outermost loop and the hybrid rate the innermost.
C18_Model(n) == ((n - 1) \div (Len(args.qtypes) * Len(args.hybrid_rates))) + 1
C18_QType(n) == (((n - 1) \div Len(args.hybrid_rates)) % Len(args.qtypes)) + 1
C18_Rate(n) == ((n - 1) % Len(args.hybrid_rates)) + 1

\* The calls of one combination none of whose external calls fails.
C18_Steps ==
    <<"read_token", "login", "whoami", "auth_check", "mkpath",
      "snapshot_download", "snapshot_download_lora", "RKLLM",
      "load_huggingface", "build", "export_rkllm", "create_repo",
      "ModelCard.load", "copytree", "upload_folder">>

\* The n-th combination started is the n-th of the product in nested order,
\* no step of a combination is made twice, and when no external call has
\* failed every combination started is resolved, converted and published in
\* that order and the batch ends after |models| * |qtypes| * |hybrid_rates|
\* iterations.
C18_Product ==
    /\ Len(resolved) <= Combinations
    /\ \A n \in 1..Len(resolved) :
          /\ resolved[n].model_id = args.model_ids[C18_Model(n)]
          /\ resolved[n].qtype = args.qtypes[C18_QType(n)]
          /\ resolved[n].hybrid_rate = FormatFloat(args.hybrid_rates[C18_Rate(n)])
    /\ \A i, j \in 1..Len(calls) : calls[i].op = calls[j].op => i = j
    /\ faults = {}
          => /\ pc = "aborted" => exc.site = "validate"
             /\ failures = 0
             /\ (pc \in {"new_request", "done"} /\ Len(resolved) > 0)
                   => /\ uploaded = 1..Len(resolved)
                      /\ [i \in 1..Len(calls) |-> calls[i].op] = C18_Steps
             /\ pc = "done" => Len(resolved) = Combinations

\* C18: the driver covers the Cartesian product and terminates.  convert
\* processes each (model, qtype, hybrid_rate) of the product exactly once in
\* nested order, model outermost and hybrid rate innermost, each as resolve
\* names, convert, publish, without re-running a combination or a step, and
\* every run comes to its end.
C18_CoversProductAndTerminates ==
    []C18_Product /\ <>(pc \in {"done", "aborted"})

\* A batch of two models and two hybrid rates has ended with its four
\* combinations published.
C18_Witness ==
    /\ pc = "done"
    /\ faults = {}
    /\ Len(args.model_ids) = 2
    /\ Len(args.hybrid_rates) = 2
    /\ Len(resolved) = 4
    /\ uploaded = 1..4

\* C19: ordering inside publish.  upload_folder is called only after
\* create_repo was attempted, the card was built and the non-weight files
\* were copied, in that order; when ModelCard.load fails, the request makes
\* neither the copytree nor the upload_folder call and is not published,
\* although create_repo was called before and may have made the repository.
C19_PublishOrder ==
    \A i \in 1..Len(calls) :
        /\ calls[i].op = "upload_folder"
              => /\ i > 3
                 /\ calls[i - 3].op = "create_repo"
                 /\ calls[i - 2].op = "ModelCard.load" /\ calls[i - 2].ok
                 /\ calls[i - 1].op = "copytree"
                 /\ hf.card_out # Unset
        /\ (calls[i].op = "ModelCard.load" /\ ~calls[i].ok)
              => /\ i > 1 /\ calls[i - 1].op = "create_repo"
                 /\ ~CalledAfter(i, {"copytree", "upload_folder"})
                 /\ Request \notin uploaded
                 /\ pc = "aborted" /\ exc.site = "ModelCard.load"

\* The repository was created, the source model card could not be loaded,
\* and the request ended without copying or uploading anything.
C19_Witness ==
    /\ pc = "aborted"
    /\ exc.site = "ModelCard.load"
    /\ hf.repo_url # Unset
    /\ Len(calls) > 1
    /\ calls[Len(calls)].op = "ModelCard.load" /\ ~calls[Len(calls)].ok
    /\ calls[Len(calls) - 1].op = "create_repo" /\ calls[Len(calls) - 1].ok

\* C20: export directories only accumulate during a batch.  No artifact
\* that was exported is deleted, combinations with the same model name and
\* platform share their export directory, and the folder handed to
\* upload_folder for a combination holds the .rkllm artifact of every
\* combination for the same model and platform that was exported earlier in
\* the batch.  (Every upload_folder call is the latest call of the run in
\* the state it is made in, for the request rk.)
C20_ExportsAccumulate ==
    \A j \in 1..Len(trace) :
        (trace[j].op = "export_rkllm" /\ trace[j].ok)
            => /\ trace[j].arg \in files
               /\ resolved[trace[j].req].export_path \in dirs
               /\ (/\ trace[Len(trace)].op = "upload_folder"
                   /\ trace[Len(trace)].req = Request
                   /\ resolved[trace[j].req].model_name = rk.model_name
                   /\ resolved[trace[j].req].platform = rk.platform)
                     => /\ resolved[trace[j].req].export_path = rk.export_path
                        /\ trace[j].arg \in trace[Len(trace)].arg.folder

\* The folder uploaded for the second combination of a model holds the
\* artifact of the first one next to its own.
C20_Witness ==
    \E k \in Uploads : \E j \in Exports :
        /\ trace[j].ok
        /\ trace[j].req < trace[k].req
        /\ trace[j].arg \in trace[k].arg.folder
        /\ artifact_path(resolved[trace[k].req]) \in trace[k].arg.folder
        /\ artifact_path(resolved[trace[k].req]) # trace[j].arg

====
